---- MODULE Spec2Model ----
(***************************************************************************)
(* State-machine model of the two ROS nodes of depthai_publisher:          *)
(*   - dai_detector.py      (DepthaiCamera: object detections -> one       *)
(*                           stabilised report per object id)              *)
(*   - aruco_subscriber_pose.py (ArucoDetector: marker registry, speech    *)
(*                           queue and worker thread, pose publication)    *)
(* The nodes are separate processes; each has its own specification       *)
(* (Spec for the detector node, SpecAruco for the marker node) and leaves  *)
(* the other node's variables untouched.                                   *)
(*                                                                         *)
(* Numbers that are floats in the program are exact rationals here,        *)
(* records [num, den]; float rounding is outside the model.                *)
(***************************************************************************)
EXTENDS Integers, Sequences, FiniteSets, TLC

(***************************************************************************)
(* Bounds of the model.                                                    *)
(***************************************************************************)
\* total number of detections labelled "backpack" or "person"
MaxObs == 21
\* number of image messages delivered to the marker node
MaxFrames == 3
\* number of markers detectMarkers reports in one frame
MaxMarkers == 2
\* box coordinates given to frameNorm alone range over the tenths from
\* -MaxOver/10 to 1 + MaxOver/10
MaxOver == 2

(***************************************************************************)
(* Rationals.                                                              *)
(***************************************************************************)
Rat(n, d) == [num |-> n, den |-> d]

RatEq(a, b) == a.num * b.den = b.num * a.den

(***************************************************************************)
(* dai_detector.py : constants and pure functions                          *)
(***************************************************************************)
\* deque(maxlen=10), dai_detector.py line 99
maxlen == 10

\* the literal of "len(self.coordinate_buffers[object_id]) == 10", line 131
ReadyLen == 10

\* res = [416, 416] (line 67): frame.shape as <<rows, columns>>
FrameShape == <<416, 416>>

\* labels of the network configuration (lines 62-63); labels[i] of the
\* program is labels[i + 1] here.  The third name stands for any label that
\* is neither "backpack" nor "person".
labels == <<"backpack", "person", "drone">>

\* "no object id": the handler returned at line 111
NoId == 0

\* lines 105-111: label -> object id, NoId for the else branch
LabelToObjectId_AcceptsAll(label) ==
    IF labels[label + 1] = "backpack" THEN 101 ELSE 102

LabelToObjectId(label) ==
    IF labels[label + 1] = "backpack" THEN 101
    ELSE IF labels[label + 1] = "person" THEN 102
    ELSE NoId

ObjectIds == {101, 102}

\* no clipping
Clip01_None(x) == x

\* np.clip(x, 0, 1) of a rational
Clip01(x) ==
    IF x.num < 0 THEN Rat(0, 1)
    ELSE IF x.num > x.den THEN Rat(1, 1)
    ELSE x

\* (x * n).astype(int) for 0 <= x: truncation
ScaleToInt(x, n) == (x.num * n) \div x.den

\* frameNorm (lines 277-280): even positions scale by shape[1], odd
\* positions (0-based 1, 3) by shape[0]
frameNorm(shape, bbox) ==
    [i \in 1..4 |->
        ScaleToInt(Clip01(bbox[i]), IF i % 2 = 1 THEN shape[2] ELSE shape[1])]

\* lines 116-121 and corners.flatten() of line 129
FlatCorners_Swapped(b) ==
    <<b[1], b[2], b[3], b[4], b[3], b[2], b[1], b[4]>>

FlatCorners(b) ==
    <<b[1], b[2], b[3], b[2], b[3], b[4], b[1], b[4]>>

\* deque.append on a deque(maxlen=10): the oldest entry is dropped when full
DequeAppend_NoEvict(buf, x) == Append(buf, x)

\* a deque that drops its oldest entry one append too early
DequeAppend_EvictEarly(buf, x) ==
    IF Len(buf) >= maxlen - 1 THEN Append(Tail(buf), x) ELSE Append(buf, x)

DequeAppend(buf, x) ==
    IF Len(buf) >= maxlen THEN Append(Tail(buf), x) ELSE Append(buf, x)

\* defaultdict access: the key is created with an empty deque when missing
DefaultGet(d, k) == IF k \in DOMAIN d THEN d ELSE d @@ (k :> <<>>)

RECURSIVE ColumnSum(_, _)
ColumnSum(buf, j) ==
    IF buf = <<>> THEN 0 ELSE Head(buf)[j] + ColumnSum(Tail(buf), j)

\* np.mean(buffer, axis=0): one mean per column, over the buffered entries
Mean(buf) == [j \in 1..8 |-> Rat(ColumnSum(buf, j), Len(buf))]

\* line 131: the publication condition, evaluated after the append
Ready_NoDedup(buf, id, published) == Len(buf) = ReadyLen

Ready_OffByOne(buf, id, published) ==
    Len(buf) = ReadyLen - 1 /\ id \notin published

Ready(buf, id, published) == Len(buf) = ReadyLen /\ id \notin published

\* a message whose size ratios are taken from the averaged corners
ObjectMsg_MeanRatios(id, avg, mlx, mly) ==
    <<Rat(id, 1)>> \o avg
      \o <<Rat(avg[3].num - avg[1].num, avg[1].den * FrameShape[2]),
           Rat(avg[6].num - avg[2].num, avg[2].den * FrameShape[1])>>

\* line 137: [float(object_id)] + averaged corners + the two size ratios
ObjectMsg(id, avg, mlx, mly) == <<Rat(id, 1)>> \o avg \o <<mlx, mly>>

\* a clear that leaves the buffer as it is
ClearBuffer_Skip(bufs, id) == bufs

\* line 148: self.coordinate_buffers[object_id].clear()
ClearBuffer(bufs, id) == [bufs EXCEPT ![id] = <<>>]

(***************************************************************************)
(* Inputs of the detector node.                                            *)
(***************************************************************************)
BoxA == <<Rat(4, 10), Rat(4, 10), Rat(6, 10), Rat(6, 10)>>
BoxB == <<Rat(-1, 10), Rat(2, 10), Rat(12, 10), Rat(9, 10)>>

\* detection.label, (xmin, ymin, xmax, ymax)
LabelIds == {0, 1, 2}

Detections ==
    { [label |-> 0, bbox |-> BoxA], [label |-> 0, bbox |-> BoxB],
      [label |-> 1, bbox |-> BoxA], [label |-> 2, bbox |-> BoxA] }

\* inputs of frameNorm taken alone: normalised coordinates below 0, inside
\* [0, 1] and above 1, and frames (height, width) of the network size and of
\* a size whose sides differ
NormCoords == {Rat(n, 10) : n \in (0 - MaxOver)..(10 + MaxOver)}

NormBoxes == [1..4 -> NormCoords]

NormShapes == {FrameShape, <<312, 416>>}

(***************************************************************************)
(* aruco_subscriber_pose.py : pure functions                               *)
(***************************************************************************)
\* queue.Queue() of line 42: maxsize 0, "infinite"
speech_queue_maxsize == 0

\* Queue.put blocks while the queue is full; full means 0 < maxsize <= qsize
QueueFull_Bounded(q) == Len(q) >= 1

QueueFull(q) == speech_queue_maxsize > 0 /\ Len(q) >= speech_queue_maxsize

\* lines 74-97: the loop over the detected markers; new_ids collects, in
\* order, the ids that are not yet in detected_marker_ids and adds them
RECURSIVE RegisterMarkers_NoAdd(_, _, _)
RegisterMarkers_NoAdd(ids, new_ids, seen) ==
    IF ids = <<>> THEN [new_ids |-> new_ids, seen |-> seen]
    ELSE IF Head(ids) \notin seen
         THEN RegisterMarkers_NoAdd(Tail(ids), Append(new_ids, Head(ids)),
                                    seen)
         ELSE RegisterMarkers_NoAdd(Tail(ids), new_ids, seen)

RECURSIVE RegisterMarkers(_, _, _)
RegisterMarkers(ids, new_ids, seen) ==
    IF ids = <<>> THEN [new_ids |-> new_ids, seen |-> seen]
    ELSE IF Head(ids) \notin seen
         THEN RegisterMarkers(Tail(ids), Append(new_ids, Head(ids)),
                              seen \cup {Head(ids)})
         ELSE RegisterMarkers(Tail(ids), new_ids, seen)

\* the outcome of find_aruco (lines 67-141) on the markers of a frame, given
\* the attributes bound on self:
\*   raised  the exception that ends the call ("" when it returns the frame)
\*   seen, queue  detected_marker_ids and speech_queue afterwards
\*   new_ids the batch put on the queue (<<>> when none)
\*   poses   the number of transforms sent
\* With markers in the frame, line 95 needs detected_marker_ids; after the
\* loop and the put, line 115 reshapes corners[0], which the loop rebound
\* (line 76) to a 4x2 array, so that two numbers are to fill a 4x2 array and
\* numpy raises ValueError; lines 118-137 are never reached.  Without
\* markers the call goes to line 139, where self.tfbr, an attribute no line
\* assigns, raises AttributeError.
find_aruco(markers, attrs, seen, queue) ==
    IF Len(markers) > 0
    THEN IF "detected_marker_ids" \notin attrs
         THEN [raised |-> "AttributeError:95", seen |-> seen,
               queue |-> queue, new_ids |-> <<>>, poses |-> 0]
         ELSE LET ids == [i \in 1..Len(markers) |-> markers[i].id]
                  r == RegisterMarkers(ids, <<>>, seen)
              IN  [raised |-> "ValueError:115", seen |-> r.seen,
                   queue |-> IF r.new_ids # <<>>
                             THEN Append(queue, r.new_ids) ELSE queue,
                   new_ids |-> r.new_ids, poses |-> 0]
    ELSE [raised |-> "AttributeError:139", seen |-> seen, queue |-> queue,
          new_ids |-> <<>>, poses |-> 0]

\* lines 151-152: the phrases handed to engine.say for a batch
Phrases(batch) ==
    [i \in 1..Len(batch) |-> <<"Detected ArUco Marker: ", batch[i]>>]

\* a get that takes the batch put last
QueueGet_Lifo(q) ==
    [item |-> q[Len(q)], rest |-> SubSeq(q, 1, Len(q) - 1)]

\* line 149: Queue.get() on a queue.Queue (FIFO) that is not empty takes
\* the batch put first
QueueGet(q) == [item |-> Head(q), rest |-> Tail(q)]

\* a get that never gives up (no timeout)
GetGivesUp_Never(q) == FALSE

\* lines 149 and 155: Queue.get(timeout=1) raises queue.Empty when its wait
\* of one second ends with the queue still empty
GetGivesUp(q) == q = <<>>

(***************************************************************************)
(* Inputs of the marker node.                                              *)
(***************************************************************************)
MarkerIds == {3, 7}

\* one detected marker: its id, and whether a perspective-n-point solve on
\* its corners would converge
Markers == [id : MarkerIds, solvable : BOOLEAN]

RECURSIVE SeqsUpTo(_, _)
SeqsUpTo(S, n) ==
    IF n = 0 THEN {<<>>}
    ELSE LET shorter == SeqsUpTo(S, n - 1)
         IN  shorter \cup {Append(q, x) : q \in shorter, x \in S}

\* what detectMarkers finds in a frame
MarkerLists == SeqsUpTo(Markers, MaxMarkers)

\* an image message: whether the bridge decodes it and, if so, its markers
Images ==
    {[converted |-> FALSE, markers |-> <<>>]}
    \cup {[converted |-> TRUE, markers |-> m] : m \in MarkerLists}

(***************************************************************************)
(* State.                                                                  *)
(***************************************************************************)
VARIABLES
    \* ---- dai_detector.py
    coordinate_buffers,   \* self.coordinate_buffers: id -> deque
    published_objects,    \* self.published_objects
    pub_object_detect,    \* messages published on /object_pose, in order
    run_pc,               \* position of run(): "get", "for", "espeak"
    object_id,            \* local of the suspended publish_object_data
    espeak_running,       \* the espeak child process is playing
    warned,               \* rospy.logwarn of line 110 has been called
    ncalls,               \* history: calls of publish_object_data with the
                          \* labels 0 and 1, per label
    saw_unknown,          \* history: a call had another label
    first_sum,            \* history: per label, sum of the pixel boxes of
                          \* the first ReadyLen calls
    det_is_shutdown,      \* rospy.is_shutdown() in the detector node
    gapped                \* history: the unpublished ids whose buffer was
                          \* one observation short of ReadyLen when a loop
                          \* iteration without detections passed

VARIABLES
    \* ---- aruco_subscriber_pose.py
    main_pc,              \* main thread: the line of __init__ to run next
    attrs,                \* attributes bound on the ArucoDetector instance
    is_shutdown,          \* rospy.is_shutdown()
    speech_queue,         \* self.speech_queue: batches waiting
    detected_marker_ids,  \* self.detected_marker_ids
    speech_pc,            \* worker thread: "none", "while", "get", "run",
                          \* "done"
    marker_ids,           \* worker local: the batch being announced
    spoken,               \* phrases whose playback has completed
    nframes,              \* image messages delivered so far
    last_cb,              \* history: input and outcome of the last callback
    put_log               \* history: every batch put on the queue

VARIABLES
    \* ---- frameNorm called alone
    norm_shape,           \* frame.shape[:2] of the frame argument
    norm_bbox,            \* the bbox argument
    norm_out              \* the array returned, <<>> before the call

normVars == <<norm_shape, norm_bbox, norm_out>>

arucoVars == <<main_pc, attrs, is_shutdown, speech_queue,
               detected_marker_ids, speech_pc, marker_ids, spoken, nframes,
               last_cb, put_log>>

detVars == <<coordinate_buffers, published_objects, pub_object_detect,
             run_pc, object_id, espeak_running, warned, ncalls, saw_unknown,
             first_sum, det_is_shutdown, gapped>>

vars == <<detVars, arucoVars, normVars>>

(***************************************************************************)
(* dai_detector.py : DepthaiCamera                                         *)
(***************************************************************************)
\* lines 76-101 and the locals of run() before the loop
InitDetector ==
    /\ coordinate_buffers = <<>>
    /\ published_objects = {}
    /\ pub_object_detect = <<>>
    /\ run_pc = "get"
    /\ object_id = NoId
    /\ espeak_running = FALSE
    /\ warned = FALSE
    /\ ncalls = [l \in {0, 1} |-> 0]
    /\ saw_unknown = FALSE
    /\ first_sum = [l \in {0, 1} |-> <<0, 0, 0, 0>>]
    /\ det_is_shutdown = FALSE
    /\ gapped = {}

\* the bound on the inputs: MaxObs calls with the labels 0 and 1 together
CallAllowed(label) == label \in {0, 1} => ncalls[0] + ncalls[1] < MaxObs

\* history: a call with label 0 or 1 is counted and its pixel box added to
\* the first sums; a call with another label is noted
Record(detection) ==
    LET l == detection.label
        bbox == frameNorm(FrameShape, detection.bbox)
    IN  IF l \in {0, 1}
        THEN /\ ncalls' = [ncalls EXCEPT ![l] = @ + 1]
             /\ first_sum' =
                  IF ncalls[l] < ReadyLen
                  THEN [first_sum EXCEPT
                          ![l] = [j \in 1..4 |-> @[j] + bbox[j]]]
                  ELSE first_sum
             /\ UNCHANGED saw_unknown
        ELSE /\ saw_unknown' = TRUE
             /\ UNCHANGED <<ncalls, first_sum>>

\* the id is unpublished and its buffer one observation short of ReadyLen
OneShort(id) ==
    /\ id \notin published_objects
    /\ id \in DOMAIN coordinate_buffers
    /\ Len(coordinate_buffers[id]) = ReadyLen - 1

\* run(), lines 217-237: one frame and one detection packet are taken from
\* the device queues; a missing frame or packet restarts the loop
RunGetFrame(inRgb, inDet) ==
    /\ run_pc = "get"
    /\ run_pc' = IF inRgb /\ inDet THEN "for" ELSE "get"
    /\ gapped' = IF inRgb /\ inDet
                 THEN gapped
                 ELSE gapped \cup {id \in ObjectIds : OneShort(id)}
    /\ UNCHANGED <<coordinate_buffers, published_objects, pub_object_detect,
                   object_id, espeak_running, warned, ncalls, saw_unknown,
                   first_sum>>
    /\ UNCHANGED det_is_shutdown
    /\ UNCHANGED arucoVars
    /\ UNCHANGED normVars

\* an end of frame that empties the buffers still waiting to fill
RunEndFrame_ResetOnGap ==
    /\ run_pc = "for"
    /\ run_pc' = "get"
    /\ coordinate_buffers' =
         [id \in DOMAIN coordinate_buffers |->
             IF id \in published_objects THEN coordinate_buffers[id]
             ELSE <<>>]
    /\ UNCHANGED <<published_objects, pub_object_detect, object_id,
                   espeak_running, warned, ncalls, saw_unknown, first_sum>>
    /\ UNCHANGED <<det_is_shutdown, gapped>>
    /\ UNCHANGED arucoVars
    /\ UNCHANGED normVars

\* run(), lines 230-252: the detections of the frame are exhausted; the
\* images are published and the loop starts over
RunEndFrame ==
    /\ run_pc = "for"
    /\ run_pc' = "get"
    /\ UNCHANGED <<coordinate_buffers, published_objects, pub_object_detect,
                   object_id, espeak_running, warned, ncalls, saw_unknown,
                   first_sum>>
    /\ UNCHANGED <<det_is_shutdown, gapped>>
    /\ UNCHANGED arucoVars
    /\ UNCHANGED normVars

\* publish_object_data, lines 103-143: from the entry to the call of
\* os.system (a detection that is not published runs to the end)
PublishObjectData(detection) ==
    /\ run_pc = "for"
    /\ CallAllowed(detection.label)
    /\ Record(detection)
    /\ UNCHANGED <<det_is_shutdown, gapped>>
    /\ UNCHANGED arucoVars
    /\ UNCHANGED normVars
    /\ LET id == LabelToObjectId(detection.label) IN
       IF id = NoId
       THEN \* lines 109-111
            /\ warned' = TRUE
            /\ UNCHANGED <<coordinate_buffers, published_objects,
                           pub_object_detect, run_pc, object_id,
                           espeak_running>>
       ELSE LET bbox == frameNorm(FrameShape, detection.bbox)
                corners == FlatCorners(bbox)
                height == bbox[4] - bbox[2]
                width == bbox[3] - bbox[1]
                marker_length_x == Rat(width, FrameShape[2])
                marker_length_y == Rat(height, FrameShape[1])
                bufs == DefaultGet(coordinate_buffers, id)
                buf == DequeAppend(bufs[id], corners)
            IN  /\ coordinate_buffers' = [bufs EXCEPT ![id] = buf]
                /\ IF Ready(buf, id, published_objects)
                   THEN \* lines 133-143
                        /\ pub_object_detect' =
                             Append(pub_object_detect,
                                    ObjectMsg(id, Mean(buf), marker_length_x,
                                              marker_length_y))
                        /\ object_id' = id
                        /\ espeak_running' = TRUE
                        /\ run_pc' = "espeak"
                   ELSE UNCHANGED <<pub_object_detect, object_id,
                                    espeak_running, run_pc>>
                /\ UNCHANGED <<published_objects, warned>>

\* the espeak child process finishes playing the announcement
EspeakExit ==
    /\ espeak_running
    /\ espeak_running' = FALSE
    /\ UNCHANGED <<coordinate_buffers, published_objects, pub_object_detect,
                   run_pc, object_id, warned, ncalls, saw_unknown, first_sum>>
    /\ UNCHANGED <<det_is_shutdown, gapped>>
    /\ UNCHANGED arucoVars
    /\ UNCHANGED normVars

\* publish_object_data, lines 143-148: os.system returns once the child has
\* exited; the id is marked published and its buffer cleared
OsSystemReturn ==
    /\ run_pc = "espeak"
    /\ ~espeak_running
    /\ published_objects' = published_objects \cup {object_id}
    /\ coordinate_buffers' = ClearBuffer(coordinate_buffers, object_id)
    /\ object_id' = NoId
    /\ run_pc' = "for"
    /\ gapped' = gapped \ {object_id}
    /\ UNCHANGED <<pub_object_detect, espeak_running, warned, ncalls,
                   saw_unknown, first_sum>>
    /\ UNCHANGED det_is_shutdown
    /\ UNCHANGED arucoVars
    /\ UNCHANGED normVars

(***************************************************************************)
(* aruco_subscriber_pose.py : ArucoDetector                                *)
(***************************************************************************)
NoCallback ==
    [called |-> FALSE, converted |-> FALSE, markers |-> <<>>,
     raised |-> "", new_ids |-> <<>>, poses |-> 0, published |-> FALSE]

\* main() up to the call of ArucoDetector() (lines 166-171)
InitAruco ==
    /\ main_pc = "l23"
    /\ attrs = {}
    /\ is_shutdown = FALSE
    /\ speech_queue = <<>>
    /\ detected_marker_ids = {}
    /\ speech_pc = "none"
    /\ marker_ids = <<>>
    /\ spoken = <<>>
    /\ nframes = 0
    /\ last_cb = NoCallback
    /\ put_log = <<>>

\* the process is alive until the main thread ends
Alive == main_pc # "exit"

\* __init__, lines 21-28: image publisher and bridge
InitPublisher ==
    /\ main_pc = "l23"
    /\ attrs' = attrs \cup {"aruco_pub", "br"}
    /\ main_pc' = "l30"
    /\ UNCHANGED <<is_shutdown, speech_queue, detected_marker_ids, speech_pc,
                   marker_ids, spoken, nframes, last_cb, put_log>>
    /\ UNCHANGED detVars
    /\ UNCHANGED normVars

\* __init__, lines 30-34: the subscription, from which on img_callback runs
\* on the threads of the subscriber
InitSubscriber ==
    /\ main_pc = "l30"
    /\ attrs' = IF is_shutdown THEN attrs ELSE attrs \cup {"frame_sub"}
    /\ main_pc' = "l37"
    /\ UNCHANGED <<is_shutdown, speech_queue, detected_marker_ids, speech_pc,
                   marker_ids, spoken, nframes, last_cb, put_log>>
    /\ UNCHANGED detVars
    /\ UNCHANGED normVars

\* __init__, lines 37-39: the speech engine
InitEngine ==
    /\ main_pc = "l37"
    /\ attrs' = attrs \cup {"engine"}
    /\ main_pc' = "l42"
    /\ UNCHANGED <<is_shutdown, speech_queue, detected_marker_ids, speech_pc,
                   marker_ids, spoken, nframes, last_cb, put_log>>
    /\ UNCHANGED detVars
    /\ UNCHANGED normVars

\* __init__, line 42: the queue
InitQueue ==
    /\ main_pc = "l42"
    /\ attrs' = attrs \cup {"speech_queue"}
    /\ speech_queue' = <<>>
    /\ main_pc' = "l43"
    /\ UNCHANGED <<is_shutdown, detected_marker_ids, speech_pc, marker_ids,
                   spoken, nframes, last_cb, put_log>>
    /\ UNCHANGED detVars
    /\ UNCHANGED normVars

\* __init__, lines 43-45: the daemon worker thread is started
InitThread ==
    /\ main_pc = "l43"
    /\ attrs' = attrs \cup {"speech_thread"}
    /\ speech_pc' = "while"
    /\ main_pc' = "l48"
    /\ UNCHANGED <<is_shutdown, speech_queue, detected_marker_ids,
                   marker_ids, spoken, nframes, last_cb, put_log>>
    /\ UNCHANGED detVars
    /\ UNCHANGED normVars

\* __init__, line 48: the set of seen marker ids
InitMarkerIds ==
    /\ main_pc = "l48"
    /\ attrs' = attrs \cup {"detected_marker_ids"}
    /\ detected_marker_ids' = {}
    /\ main_pc' = "l51"
    /\ UNCHANGED <<is_shutdown, speech_queue, speech_pc, marker_ids, spoken,
                   nframes, last_cb, put_log>>
    /\ UNCHANGED detVars
    /\ UNCHANGED normVars

\* __init__, lines 51-52: the pose publisher
InitPosePublisher ==
    /\ main_pc = "l51"
    /\ attrs' = attrs \cup {"aruco_data_pub"}
    /\ main_pc' = "l53"
    /\ UNCHANGED <<is_shutdown, speech_queue, detected_marker_ids, speech_pc,
                   marker_ids, spoken, nframes, last_cb, put_log>>
    /\ UNCHANGED detVars
    /\ UNCHANGED normVars

\* __init__, line 53, and main(), line 171: self.pose_sub_topic is bound
\* nowhere; the AttributeError leaves __init__ and main(), the main thread
\* ends and the process exits, which ends its daemon threads
InitLogPoseTopic ==
    /\ main_pc = "l53"
    /\ main_pc' = "exit"
    /\ UNCHANGED <<attrs, is_shutdown, speech_queue, detected_marker_ids,
                   speech_pc, marker_ids, spoken, nframes, last_cb, put_log>>
    /\ UNCHANGED detVars
    /\ UNCHANGED normVars

\* a shutdown of the node is signalled
SignalShutdown ==
    /\ Alive
    /\ ~is_shutdown
    /\ is_shutdown' = TRUE
    /\ UNCHANGED <<main_pc, attrs, speech_queue, detected_marker_ids,
                   speech_pc, marker_ids, spoken, nframes, last_cb, put_log>>
    /\ UNCHANGED detVars
    /\ UNCHANGED normVars

\* an image message can be delivered to img_callback
Deliverable ==
    /\ Alive
    /\ ~is_shutdown
    /\ "frame_sub" \in attrs
    /\ nframes < MaxFrames

\* img_callback (lines 55-64) with find_aruco (lines 67-141) for one image
\* message.  A failed conversion is logged and line 63 then
\* reads the unbound local frame.  publish_to_ros (line 64) runs only when
\* find_aruco returns.  The put of line 102 waits while the queue is full.
\* An exception leaves the callback and is logged by the subscriber thread.
ImgCallback(msg_in) ==
    /\ Deliverable
    /\ LET r == IF msg_in.converted
                THEN find_aruco(msg_in.markers, attrs, detected_marker_ids,
                                speech_queue)
                ELSE [raised |-> "UnboundLocalError:63",
                      seen |-> detected_marker_ids, queue |-> speech_queue,
                      new_ids |-> <<>>, poses |-> 0]
       IN  /\ r.new_ids # <<>> => ~QueueFull(speech_queue)
           /\ detected_marker_ids' = r.seen
           /\ speech_queue' = r.queue
           /\ put_log' = IF r.new_ids # <<>>
                         THEN Append(put_log, r.new_ids) ELSE put_log
           /\ last_cb' = [called |-> TRUE, converted |-> msg_in.converted,
                          markers |-> msg_in.markers,
                          raised |-> r.raised, new_ids |-> r.new_ids,
                          poses |-> r.poses, published |-> r.raised = ""]
    /\ nframes' = nframes + 1
    /\ UNCHANGED <<main_pc, attrs, is_shutdown, speech_pc, marker_ids,
                   spoken>>
    /\ UNCHANGED detVars
    /\ UNCHANGED normVars

\* process_speech_queue, line 147: the loop test
WorkerLoopTest ==
    /\ Alive
    /\ speech_pc = "while"
    /\ speech_pc' = IF is_shutdown THEN "done" ELSE "get"
    /\ UNCHANGED <<main_pc, attrs, is_shutdown, speech_queue,
                   detected_marker_ids, marker_ids, spoken, nframes, last_cb,
                   put_log>>
    /\ UNCHANGED detVars
    /\ UNCHANGED normVars

\* process_speech_queue, lines 149-153: a batch is taken, its phrases are
\* handed to the engine and runAndWait starts playing
WorkerGet ==
    /\ Alive
    /\ speech_pc = "get"
    /\ speech_queue # <<>>
    /\ marker_ids' = QueueGet(speech_queue).item
    /\ speech_queue' = QueueGet(speech_queue).rest
    /\ speech_pc' = "run"
    /\ UNCHANGED <<main_pc, attrs, is_shutdown, detected_marker_ids, spoken,
                   nframes, last_cb, put_log>>
    /\ UNCHANGED detVars
    /\ UNCHANGED normVars

\* process_speech_queue, lines 149, 155-156: the one-second wait ends on an
\* empty queue
WorkerGetTimeout ==
    /\ Alive
    /\ speech_pc = "get"
    /\ GetGivesUp(speech_queue)
    /\ speech_pc' = "while"
    /\ UNCHANGED <<main_pc, attrs, is_shutdown, speech_queue,
                   detected_marker_ids, marker_ids, spoken, nframes, last_cb,
                   put_log>>
    /\ UNCHANGED detVars
    /\ UNCHANGED normVars

\* a worker that takes the ids it has announced out of the set of seen ids
WorkerRunAndWaitDone_Forgets ==
    /\ Alive
    /\ speech_pc = "run"
    /\ spoken' = spoken \o Phrases(marker_ids)
    /\ marker_ids' = <<>>
    /\ speech_pc' = "while"
    /\ detected_marker_ids' =
         detected_marker_ids \ {marker_ids[i] : i \in 1..Len(marker_ids)}
    /\ UNCHANGED <<main_pc, attrs, is_shutdown, speech_queue, nframes,
                   last_cb, put_log>>
    /\ UNCHANGED detVars
    /\ UNCHANGED normVars

\* process_speech_queue, lines 153-154: playback of the batch has completed
WorkerRunAndWaitDone ==
    /\ Alive
    /\ speech_pc = "run"
    /\ spoken' = spoken \o Phrases(marker_ids)
    /\ marker_ids' = <<>>
    /\ speech_pc' = "while"
    /\ UNCHANGED <<main_pc, attrs, is_shutdown, speech_queue,
                   detected_marker_ids, nframes, last_cb, put_log>>
    /\ UNCHANGED detVars
    /\ UNCHANGED normVars

NextAruco ==
    \/ InitPublisher
    \/ InitSubscriber
    \/ InitEngine
    \/ InitQueue
    \/ InitThread
    \/ InitMarkerIds
    \/ InitPosePublisher
    \/ InitLogPoseTopic
    \/ SignalShutdown
    \/ \E msg_in \in Images : ImgCallback(msg_in)
    \/ WorkerLoopTest
    \/ WorkerGet
    \/ WorkerGetTimeout
    \/ WorkerRunAndWaitDone

\* frameNorm is not called on its own in the two nodes
NormIdle ==
    /\ norm_shape = FrameShape
    /\ norm_bbox = BoxA
    /\ norm_out = <<>>

Init == InitDetector /\ InitAruco /\ NormIdle

Next ==
    \/ \E inRgb \in BOOLEAN, inDet \in BOOLEAN : RunGetFrame(inRgb, inDet)
    \/ RunEndFrame
    \/ \E detection \in Detections : PublishObjectData(detection)
    \/ EspeakExit
    \/ OsSystemReturn

\* the detector node
Spec == Init /\ [][Next]_vars

\* a shutdown of the detector node is signalled: rospy's handler sets the
\* flag that rospy.is_shutdown() returns and the main thread goes on
DetSignalShutdown ==
    /\ ~det_is_shutdown
    /\ det_is_shutdown' = TRUE
    /\ UNCHANGED <<coordinate_buffers, published_objects, pub_object_detect,
                   run_pc, object_id, espeak_running, warned, ncalls,
                   saw_unknown, first_sum, gapped>>
    /\ UNCHANGED arucoVars
    /\ UNCHANGED normVars

NextShutdown ==
    \/ Next
    \/ DetSignalShutdown

\* the detector node with a shutdown signalled at any moment of run()
SpecShutdown == Init /\ [][NextShutdown]_vars

\* any box on any of the frames is about to be given to frameNorm
InitNorm ==
    /\ InitDetector
    /\ InitAruco
    /\ norm_shape \in NormShapes
    /\ norm_bbox \in NormBoxes
    /\ norm_out = <<>>

\* frameNorm (lines 277-280) is applied to the box
ApplyFrameNorm ==
    /\ norm_out = <<>>
    /\ norm_out' = frameNorm(norm_shape, norm_bbox)
    /\ UNCHANGED <<norm_shape, norm_bbox>>
    /\ UNCHANGED detVars
    /\ UNCHANGED arucoVars

NextNorm == ApplyFrameNorm

\* frameNorm on every input of NormBoxes and NormShapes
SpecNorm == InitNorm /\ [][NextNorm]_vars

\* the marker node
SpecAruco == Init /\ [][NextAruco]_vars

\* the steps of the worker thread (process_speech_queue)
WorkerStep ==
    WorkerLoopTest \/ WorkerGet \/ WorkerGetTimeout \/ WorkerRunAndWaitDone

\* the marker node with a worker thread that is scheduled as long as the
\* process lives, whose waits on the queue end and whose playbacks complete;
\* nothing is assumed of the main thread and of the arrival of images
SpecArucoFair ==
    /\ SpecAruco
    /\ WF_vars(WorkerLoopTest)
    /\ WF_vars(WorkerGet)
    /\ WF_vars(WorkerGetTimeout)
    /\ WF_vars(WorkerRunAndWaitDone)

(***************************************************************************)
(* Properties of the detector node (checked under Spec).                   *)
(***************************************************************************)
\* the label whose detections are observations of an object id
LabelOf(id) == IF id = 101 THEN 0 ELSE 1

\* number of observations of an object id that were handed to the handler
Obs(id) == ncalls[LabelOf(id)]

\* number of reports published for an object id
Reports(id) ==
    Cardinality({i \in 1..Len(pub_object_detect) :
                    RatEq(pub_object_detect[i][1], Rat(id, 1))})

BufLen(id) ==
    IF id \in DOMAIN coordinate_buffers THEN Len(coordinate_buffers[id]) ELSE 0

\* C1: for every object id (101, 102), however many observations follow the
\* first publication and however often the buffer is full again, the report
\* channel has received at most one message carrying that id.
C1_AtMostOneReport == \A id \in ObjectIds : Reports(id) <= 1

\* C1 witness: an id was published, observed at least twice the window
\* length, and its buffer is full again, with one report on the channel.
C1_Witness ==
    \E id \in ObjectIds :
        /\ id \in published_objects
        /\ Obs(id) >= 2 * ReadyLen
        /\ BufLen(id) = ReadyLen
        /\ Reports(id) = 1

\* C2: after fewer than W observations of an id no report has been emitted
\* for it and after W or more exactly one has; a report is emitted in a step
\* exactly when that step appends an observation of the id, the buffer then
\* has length W and the id is not in the published set.
C2_ReportExactlyAtWindowFill ==
    /\ [](\A id \in ObjectIds :
            Reports(id) = IF Obs(id) >= ReadyLen THEN 1 ELSE 0)
    /\ [][\A id \in ObjectIds :
            (Reports(id)' = Reports(id) + 1)
            <=> /\ Obs(id)' = Obs(id) + 1
                /\ BufLen(id)' = ReadyLen
                /\ id \notin published_objects]_vars

\* C2 witness: the W-th observation of an id has just been appended and its
\* one report emitted, while the other id, observed fewer than W times, has
\* none.
C2_Witness ==
    \E id \in ObjectIds : \E other \in ObjectIds \ {id} :
        /\ Obs(id) = ReadyLen
        /\ Reports(id) = 1
        /\ Obs(other) > 0
        /\ Obs(other) < ReadyLen
        /\ Reports(other) = 0

\* C3: every published report carries, in the order top-left, top-right,
\* bottom-right, bottom-left, the means of the corner coordinates of the
\* first W observations of its id: W times a reported value equals the sum
\* of the W observed values.
C3_ReportIsWindowMean ==
    \A i \in 1..Len(pub_object_detect) :
        \A id \in ObjectIds :
            RatEq(pub_object_detect[i][1], Rat(id, 1)) =>
                LET m == pub_object_detect[i]
                    s == first_sum[LabelOf(id)]
                    xmin == Rat(s[1], ReadyLen)
                    ymin == Rat(s[2], ReadyLen)
                    xmax == Rat(s[3], ReadyLen)
                    ymax == Rat(s[4], ReadyLen)
                IN  /\ Obs(id) >= ReadyLen
                    /\ RatEq(m[2], xmin) /\ RatEq(m[3], ymin)
                    /\ RatEq(m[4], xmax) /\ RatEq(m[5], ymin)
                    /\ RatEq(m[6], xmax) /\ RatEq(m[7], ymax)
                    /\ RatEq(m[8], xmin) /\ RatEq(m[9], ymax)

\* C3 witness: a report for id 101 was published from a window that mixes
\* the two boxes (the sum is that of neither box repeated W times).
C3_Witness ==
    /\ Reports(101) = 1
    /\ first_sum[0][3] # ReadyLen * frameNorm(FrameShape, BoxA)[3]
    /\ first_sum[0][3] # ReadyLen * frameNorm(FrameShape, BoxB)[3]

\* C4: a call with a label that is neither "backpack" nor "person" logs a
\* warning and changes nothing else: no buffer is created or appended to,
\* the published set, the report channel and the announcement are untouched
\* and the loop over the detections goes on; while no "person" detection
\* was seen nothing exists for id 102.
C4_UnknownLabelDropped ==
    /\ [][saw_unknown' # saw_unknown =>
            /\ warned'
            /\ UNCHANGED <<coordinate_buffers, published_objects,
                           pub_object_detect, espeak_running, object_id>>
            /\ run_pc' = "for"]_vars
    /\ [](ncalls[1] = 0 =>
            /\ 102 \notin DOMAIN coordinate_buffers
            /\ 102 \notin published_objects
            /\ Reports(102) = 0)

\* C4 witness: an unknown label was dropped, and a detection processed
\* afterwards in the same run was appended to the buffer of id 101.
C4_Witness ==
    /\ saw_unknown
    /\ warned
    /\ ncalls[1] = 0
    /\ BufLen(101) > 0

\* C8 (as claimed): while the announcement of a published object is playing
\* the frame-processing path is not held up: it can go on to mark the object
\* published.
C8_AnnouncementDoesNotSuspend == espeak_running => ENABLED OsSystemReturn

\* C9: every buffer holds at most W entries, and an append to a buffer that
\* holds W entries drops the oldest and keeps the others in arrival order.
C9_BufferBounded ==
    /\ [](\A id \in DOMAIN coordinate_buffers :
            Len(coordinate_buffers[id]) <= maxlen)
    /\ [][\A id \in DOMAIN coordinate_buffers :
            (BufLen(id) = maxlen /\ Obs(id)' = Obs(id) + 1) =>
                /\ BufLen(id)' = maxlen
                /\ SubSeq(coordinate_buffers'[id], 1, maxlen - 1)
                     = Tail(coordinate_buffers[id])]_vars

\* C9 witness: an append to a full buffer has evicted an entry: more
\* observations than the window and the published one together can hold,
\* and the buffer is full with differing oldest and newest entries.
C9_Witness ==
    \E id \in ObjectIds :
        /\ Obs(id) > ReadyLen + maxlen
        /\ BufLen(id) = maxlen
        /\ coordinate_buffers[id][1] # coordinate_buffers[id][maxlen]
(***************************************************************************)
(* Properties of the marker node (checked under SpecAruco).                *)
(***************************************************************************)
\* the set of values of a sequence
Range(q) == {q[i] : i \in 1..Len(q)}

\* the positions of put_log whose batch holds the marker id
BatchesWith(m) == {i \in 1..Len(put_log) : m \in Range(put_log[i])}

\* the ids of the markers of the last image
LastIds == {last_cb.markers[i].id : i \in 1..Len(last_cb.markers)}

\* the last callback reached the first-sighting check of line 95
LastChecked == last_cb.called /\ last_cb.raised = "ValueError:115"

BatchOf(msg_in) ==
    IF msg_in.converted
    THEN find_aruco(msg_in.markers, attrs, detected_marker_ids,
                    speech_queue).new_ids
    ELSE <<>>

\* C7: putting a batch on the queue never makes the frame path wait,
\* whatever the worker is doing and however many batches are queued: no
\* image that can be delivered finds the queue full for its batch, and the
\* callback of every image with at most one marker can run at once; the
\* queue holds, in order, the batches put and not yet taken, and all of
\* them while the worker has taken none.
C7_EnqueueNeverBlocks ==
    /\ Deliverable =>
          \A msg_in \in Images :
              /\ BatchOf(msg_in) # <<>> => ~QueueFull(speech_queue)
              /\ Len(msg_in.markers) <= 1 => ENABLED ImgCallback(msg_in)
    /\ Len(speech_queue) <= Len(put_log)
    /\ speech_queue
         = SubSeq(put_log, Len(put_log) - Len(speech_queue) + 1,
                  Len(put_log))
    /\ (spoken = <<>> /\ speech_pc # "run") => speech_queue = put_log

\* C7 witness: the worker is inside the playback of one batch while another
\* batch, put meanwhile, waits on the queue and a further image can be
\* delivered.
C7_Witness ==
    /\ speech_pc = "run"
    /\ Len(speech_queue) >= 1
    /\ Len(put_log) >= 2
    /\ Deliverable

\* C10 (as claimed): a frame, processed with the marker registry in place,
\* with a marker whose pose solve fails emits no pose for that marker, and
\* its callback still completes normally: the frame is returned and
\* published as an image.
C10_SolveFailureSkipped ==
    (/\ last_cb.called
     /\ last_cb.converted
     /\ last_cb.raised # "AttributeError:95"
     /\ \E i \in 1..Len(last_cb.markers) : ~last_cb.markers[i].solvable)
    => /\ last_cb.poses
            <= Cardinality({i \in 1..Len(last_cb.markers) :
                               last_cb.markers[i].solvable})
       /\ last_cb.raised = ""
       /\ last_cb.published

\* the last image was malformed or empty: it could not be converted, or it
\* was converted and shows no marker
LastMalformedOrEmpty ==
    last_cb.called /\ (~last_cb.converted \/ last_cb.markers = <<>>)

\* C11 (as claimed): a frame whose image cannot be converted or shows no
\* marker is skipped: its callback enqueues no batch and emits no pose, and
\* no error leaves the callback.
C11_MalformedFrameSkipped ==
    LastMalformedOrEmpty =>
        /\ last_cb.new_ids = <<>>
        /\ last_cb.poses = 0
        /\ last_cb.raised = ""

\* the worker thread has ended: it left its loop, or the process is gone
WorkerTerminated == speech_pc = "done" \/ ~Alive

\* C12: once shutdown is signalled with the queue empty the worker does not
\* wait on the queue for ever: it ends, by leaving its loop while the
\* process lives.  Every wait on the empty queue ends and leads back to the
\* loop test, and the loop test under shutdown leaves the loop.
C12_WorkerStopsOnShutdown ==
    /\ (is_shutdown /\ speech_queue = <<>> /\ speech_pc \in {"while", "get"})
          ~> WorkerTerminated
    /\ [][(speech_pc = "get" /\ speech_queue = <<>> /\ speech_pc' # "get")
            => speech_pc' = "while"]_vars
    /\ [][(speech_pc = "while" /\ is_shutdown /\ speech_pc' # "while")
            => speech_pc' = "done"]_vars

\* C12 witness: shutdown was signalled, the queue is empty and the worker
\* has left its loop on its own, the process still alive.
C12_Witness ==
    /\ is_shutdown
    /\ speech_queue = <<>>
    /\ speech_pc = "done"
    /\ Alive

\* C13 (as claimed): on shutdown the process does not end while the worker
\* is inside the playback of a batch it has dequeued: when the process has
\* ended, the worker is not in the middle of an announcement.
C13_NoExitDuringAnnouncement ==
    (is_shutdown /\ ~Alive) => speech_pc # "run"

(***************************************************************************)
(* Shutdown of the detector node (checked under SpecShutdown).             *)
(***************************************************************************)
\* C14 (as claimed): once shutdown is signalled the frame loop of the
\* detector takes no further frame from the device queues.
C14_NoFrameAfterShutdown ==
    [][det_is_shutdown => ~(run_pc = "get" /\ run_pc' = "for")]_vars

(***************************************************************************)
(* Properties of frameNorm (checked under SpecNorm).                       *)
(***************************************************************************)
\* the side of the frame that scales position i of a box: the width for the
\* x coordinates (1, 3), the height for the y coordinates (2, 4)
SideOf(i) == IF i \in {1, 3} THEN norm_shape[2] ELSE norm_shape[1]

\* the pixel coordinates of the returned array are whole numbers within the
\* frame, 0 for a coordinate below 0, the full side for a coordinate above
\* 1, and otherwise the product coordinate * side without its fraction
NormClipsAndScales ==
    norm_out # <<>> =>
        \A i \in 1..4 :
            LET x == norm_bbox[i]
                px == norm_out[i]
            IN  /\ px \in 0..SideOf(i)
                /\ x.num <= 0 => px = 0
                /\ x.num >= x.den => px = SideOf(i)
                /\ (0 <= x.num /\ x.num <= x.den) =>
                      /\ px * x.den <= x.num * SideOf(i)
                      /\ x.num * SideOf(i) < (px + 1) * x.den

\* the box (0.4, 0.4, 0.6, 0.6) on the 416x416 frame has been normalised
ExampleBoxDone ==
    norm_out # <<>> /\ norm_shape = <<416, 416>> /\ norm_bbox = BoxA

\* C15 (as claimed): frameNorm clips and scales every box into the frame,
\* and the corners of (0.4, 0.4, 0.6, 0.6) on 416x416 are (166,166),
\* (250,166), (250,250), (166,250).
C15_NormalizerAsClaimed ==
    /\ NormClipsAndScales
    /\ ExampleBoxDone =>
          FlatCorners(norm_out) = <<166, 166, 250, 166, 250, 250, 166, 250>>

\* C15 (amended): frameNorm clips every coordinate to [0, 1], scales x by
\* the width and y by the height and drops the fraction, so every pixel
\* coordinate is a whole number with 0 <= x <= width and 0 <= y <= height;
\* the corners of (0.4, 0.4, 0.6, 0.6) on 416x416 are (166,166), (249,166),
\* (249,249), (166,249), 0.6 * 416 = 249.6 being cut to 249.
C15_NormalizerTruncates ==
    /\ NormClipsAndScales
    /\ ExampleBoxDone =>
          FlatCorners(norm_out) = <<166, 166, 249, 166, 249, 249, 166, 249>>

\* C15 witness: a box with a coordinate below 0 and one above 1 has been
\* normalised on the frame whose sides differ.
C15_Witness ==
    /\ norm_out # <<>>
    /\ norm_shape = <<312, 416>>
    /\ norm_bbox[1].num < 0
    /\ norm_bbox[4].num > norm_bbox[4].den
    /\ norm_out[1] = 0
    /\ norm_out[4] = 312

(***************************************************************************)
(* Further properties of the detector node (checked under Spec).           *)
(***************************************************************************)
\* C16 (as claimed): the buffer of a published id is empty in every state
\* after the publication: later observations are discarded.
C16_BufferStaysEmpty ==
    \A id \in published_objects : BufLen(id) = 0

\* the smaller of two numbers
Min(a, b) == IF a <= b THEN a ELSE b

\* C16 (amended): the step that marks an id published leaves its buffer
\* empty; the observations that follow are appended again, so the buffer of
\* a published id holds the observations made since the publication, at
\* most maxlen of them, and no further report is published for the id.
C16_BufferRefillsWithoutReport ==
    /\ [][\A id \in ObjectIds :
            (id \in published_objects' /\ id \notin published_objects)
               => BufLen(id)' = 0]_vars
    /\ [](\A id \in published_objects :
            /\ BufLen(id) = Min(Obs(id) - ReadyLen, maxlen)
            /\ Reports(id) = 1)

\* C16 witness: after its publication id 101 was observed more than maxlen
\* times again; its buffer is full once more and there is still one report.
C16_Witness ==
    /\ 101 \in published_objects
    /\ Obs(101) > ReadyLen + maxlen
    /\ BufLen(101) = maxlen
    /\ Reports(101) = 1

(***************************************************************************)
(* Properties of the worker thread of the marker node (checked under       *)
(* SpecAruco).                                                             *)
(***************************************************************************)
\* the ids of a sequence of batches, in order
RECURSIVE Flatten(_)
Flatten(batches) ==
    IF batches = <<>> THEN <<>>
    ELSE Head(batches) \o Flatten(Tail(batches))

\* the ids of the phrases whose playback has completed
SpokenIds == [i \in 1..Len(spoken) |-> spoken[i][2]]

\* the number of batches the worker has taken from the queue
Taken == Len(put_log) - Len(speech_queue)

\* the number of batches whose playback has completed
Played == IF speech_pc = "run" THEN Taken - 1 ELSE Taken

\* C17: the announcements follow the queue: the ids spoken are those of the
\* batches put first, batch after batch in the order of the puts and inside
\* a batch in its order; the batch being played is the next one put; a
\* batch is taken only by a worker that is not playing, and the phrases of a
\* batch are completed together, so two batches never interleave.
C17_AnnouncementsInQueueOrder ==
    /\ [](/\ Taken >= 0
          /\ Played >= 0
          /\ SpokenIds = Flatten(SubSeq(put_log, 1, Played))
          /\ \A i \in 1..Len(spoken) :
               spoken[i][1] = "Detected ArUco Marker: "
          /\ speech_pc = "run" => marker_ids = put_log[Taken])
    /\ [][Len(speech_queue') < Len(speech_queue) =>
            /\ speech_pc = "get"
            /\ speech_pc' = "run"
            /\ marker_ids' = Head(speech_queue)
            /\ speech_queue' = Tail(speech_queue)
            /\ spoken' = spoken]_vars
    /\ [][spoken' # spoken =>
            /\ speech_pc = "run"
            /\ SpokenIds' = SpokenIds \o marker_ids
            /\ speech_queue' = speech_queue]_vars

\* C17 witness: two batches were put, one after the other, and both have
\* been announced, in the order of the puts.
C17_Witness ==
    /\ Len(put_log) = 2
    /\ speech_queue = <<>>
    /\ speech_pc # "run"
    /\ SpokenIds = Flatten(put_log)
    /\ Len(spoken) = 2

\* C18 (as claimed): without shutdown every batch put on the queue is taken
\* and every id of it announced once: when the process has ended, no batch
\* is left on the queue or half played, and the ids spoken are those put.
C18_EveryBatchAnnounced ==
    (~Alive /\ ~is_shutdown) => SpokenIds = Flatten(put_log)

\* a step of the worker thread: its position or its locals change
WorkerActed ==
    /\ speech_pc # "none"
    /\ (speech_pc' # speech_pc \/ marker_ids' # marker_ids
          \/ spoken' # spoken)

\* a step of the frame path: an image message has been handled
FrameActed == nframes' # nframes

\* C19: the steps of the worker leave the set of seen marker ids, the
\* published set and the coordinate buffers as they are, and touch only the
\* queue, the worker's locals and the speech output; the set of seen ids is
\* written by the frame path alone (and bound once by the constructor); the
\* frame path leaves the worker's position, locals and speech output alone
\* and only appends its batch to the queue, the one state both write.
C19_RegistriesOwnedByFramePath ==
    /\ [][WorkerActed =>
            UNCHANGED <<detected_marker_ids, published_objects,
                        coordinate_buffers, put_log, last_cb, nframes, attrs,
                        main_pc, is_shutdown>>]_vars
    /\ [][detected_marker_ids' # detected_marker_ids =>
            FrameActed \/ main_pc = "l48"]_vars
    /\ [][FrameActed =>
            /\ UNCHANGED <<speech_pc, marker_ids, spoken, published_objects,
                           coordinate_buffers>>
            /\ \/ speech_queue' = speech_queue
               \/ speech_queue' = Append(speech_queue, last_cb'.new_ids)]_vars

\* C19 witness: the worker is playing a second batch, the first one played,
\* while the set of seen ids holds the ids of both.
C19_Witness ==
    /\ speech_pc = "run"
    /\ spoken # <<>>
    /\ detected_marker_ids = MarkerIds
    /\ marker_ids # <<>>

(***************************************************************************)
(* Gaps between the observations of an id (checked under Spec).            *)
(***************************************************************************)
\* the content of the buffer of an id (empty when the id has no buffer yet)
BufOf(id) ==
    IF id \in DOMAIN coordinate_buffers THEN coordinate_buffers[id] ELSE <<>>

\* C20: a step that is not an observation of an id, nor the end of the
\* publication of that id, leaves the id's buffer and its membership of the
\* published set as they are; this covers every step of a frame without a
\* detection of the id and the loop iterations without frame or packet.  So
\* the buffer of an unpublished id holds all its observations, whatever
\* passed between them, an id whose window was interrupted one observation
\* short still has its W - 1 observations, and the report published at the
\* W-th observation carries the means of the W observations.
C20_NoResetOnGap ==
    /\ [][\A id \in ObjectIds :
            (Obs(id)' = Obs(id) /\ object_id # id) =>
               /\ BufOf(id)' = BufOf(id)
               /\ id \in published_objects' <=> id \in published_objects]_vars
    /\ [](\A id \in ObjectIds :
            /\ (id \notin published_objects /\ object_id # id) =>
                  /\ BufLen(id) = Obs(id)
                  /\ Obs(id) < ReadyLen
            /\ id \in gapped =>
                  /\ id \notin published_objects
                  /\ BufLen(id) >= ReadyLen - 1
                  /\ Obs(id) = BufLen(id))
    /\ [][pub_object_detect' # pub_object_detect =>
            LET m == pub_object_detect'[Len(pub_object_detect')]
                id == object_id'
                s == first_sum'[LabelOf(id)]
            IN  /\ RatEq(m[1], Rat(id, 1))
                /\ ncalls'[LabelOf(id)] = ReadyLen
                /\ RatEq(m[2], Rat(s[1], ReadyLen))
                /\ RatEq(m[3], Rat(s[2], ReadyLen))
                /\ RatEq(m[6], Rat(s[3], ReadyLen))
                /\ RatEq(m[7], Rat(s[4], ReadyLen))]_vars

\* C20 witness: the window of an id was one observation short when a loop
\* iteration without any detection passed; the next observation of the id
\* filled the window and its report has just been published.
C20_Witness ==
    /\ run_pc = "espeak"
    /\ object_id \in gapped
    /\ Reports(object_id) = 1
    /\ Obs(object_id) = ReadyLen

(***************************************************************************)
(* The window before the publication (checked under Spec).                 *)
(***************************************************************************)
\* no call of publish_object_data is suspended in its announcement
BetweenCalls == run_pc # "espeak"

\* C21: between calls of publish_object_data a buffer of W entries belongs
\* to a published id only: the buffer of an unpublished id has fewer than W
\* entries, one for each observation of the id since the start.  An append
\* for an unpublished id therefore drops nothing, and a report carries the
\* means of the first W observations of its id.
C21_FullBufferOnlyWhenPublished ==
    /\ [](BetweenCalls =>
            \A id \in ObjectIds :
                /\ BufLen(id) = ReadyLen => id \in published_objects
                /\ id \notin published_objects =>
                      /\ BufLen(id) < ReadyLen
                      /\ BufLen(id) = Obs(id)
                      /\ Reports(id) = 0)
    /\ [][\A id \in ObjectIds :
            (id \notin published_objects /\ Obs(id)' = Obs(id) + 1) =>
                /\ Len(BufOf(id)') = Len(BufOf(id)) + 1
                /\ SubSeq(BufOf(id)', 1, Len(BufOf(id))) = BufOf(id)]_vars
    /\ [](\A i \in 1..Len(pub_object_detect) :
            \A id \in ObjectIds :
                RatEq(pub_object_detect[i][1], Rat(id, 1)) =>
                    LET m == pub_object_detect[i]
                        s == first_sum[LabelOf(id)]
                    IN  /\ m[2].num * ReadyLen = s[1] * m[2].den
                        /\ m[3].num * ReadyLen = s[2] * m[3].den
                        /\ m[6].num * ReadyLen = s[3] * m[6].den
                        /\ m[7].num * ReadyLen = s[4] * m[7].den)

\* C21 witness: between two calls the buffer of the published id 101 is full
\* again while the unpublished id 102 has a buffer that is not yet full.
C21_Witness ==
    /\ BetweenCalls
    /\ 101 \in published_objects
    /\ BufLen(101) = ReadyLen
    /\ Reports(101) = 1
    /\ 102 \notin published_objects
    /\ BufLen(102) > 0
    /\ BufLen(102) < ReadyLen

(***************************************************************************)
(* The size ratios of a report (checked under Spec).                       *)
(***************************************************************************)
\* the report that the suspended call has just published
LastMsg == pub_object_detect[Len(pub_object_detect)]

\* the observation that filled the window of the id being announced
FillingObs == coordinate_buffers[object_id][ReadyLen]

\* C22: in a report the two size ratios are the box width over the frame
\* width and the box height over the frame height of the observation that
\* filled the window, the W-th, whatever the sizes of the W - 1 before it,
\* while the corner points are the means over the window.
C22_RatiosFromFillingObservation ==
    /\ [](run_pc = "espeak" =>
            /\ Len(pub_object_detect) > 0
            /\ BufLen(object_id) = ReadyLen
            /\ RatEq(LastMsg[1], Rat(object_id, 1))
            /\ RatEq(LastMsg[10],
                     Rat(FillingObs[3] - FillingObs[1], FrameShape[2]))
            /\ RatEq(LastMsg[11],
                     Rat(FillingObs[6] - FillingObs[2], FrameShape[1]))
            /\ \A j \in 1..8 :
                 RatEq(LastMsg[j + 1],
                       Rat(ColumnSum(coordinate_buffers[object_id], j),
                           ReadyLen)))
    /\ [][pub_object_detect' # pub_object_detect =>
            /\ run_pc' = "espeak"
            /\ pub_object_detect'
                 = Append(pub_object_detect, LastMsg')]_vars
    /\ [][run_pc = "espeak" => pub_object_detect' = pub_object_detect]_vars

\* the mean width of the window of the id being announced, times ReadyLen
WindowWidthSum ==
    ColumnSum(coordinate_buffers[object_id], 3)
      - ColumnSum(coordinate_buffers[object_id], 1)

\* C22 witness: a report was published from a window that mixes boxes of
\* different sizes: its width ratio is that of the filling observation and
\* differs from the ratio of the mean width.
C22_Witness ==
    /\ run_pc = "espeak"
    /\ RatEq(LastMsg[10], Rat(FillingObs[3] - FillingObs[1], FrameShape[2]))
    /\ ~RatEq(LastMsg[10], Rat(WindowWidthSum, ReadyLen * FrameShape[2]))
    /\ coordinate_buffers[object_id][1] # FillingObs

(***************************************************************************)
(* Construction of the marker node (checked under SpecAruco).              *)
(***************************************************************************)
\* the attributes a frame callback relies on: the queue, the worker thread,
\* the set of seen ids and the pose publisher
CallbackNeeds ==
    {"speech_queue", "speech_thread", "detected_marker_ids", "aruco_data_pub"}

\* C23 (as claimed): a frame callback runs only when the queue, the running
\* worker, the set of seen ids and the pose publisher exist, and the
\* construction of ArucoDetector does not end in an error.
C23_ConstructedBeforeCallbacks ==
    /\ [][nframes' # nframes =>
            /\ CallbackNeeds \subseteq attrs
            /\ speech_pc # "none"]_vars
    /\ [](main_pc # "exit")
====
